---- MODULE Spec2Model ----
(***************************************************************************)
(* Model of finnhub-rs Client::get (src/src/client.rs, lines 231-266): the *)
(* request dispatcher shared by every endpoint wrapper.  The two bodies    *)
(* selected by conditional compilation (#[cfg(not(test))], the live        *)
(* transport, and #[cfg(test)], the recording/replay transport) are both   *)
(* modelled; `build` says which one was compiled.  Caller threads issue    *)
(* get calls concurrently, each on its own &mut Vec parameter list.        *)
(***************************************************************************)
EXTENDS Integers, Sequences, FiniteSets, TLC

\* ------------------------------------------------------------------ bounds
\* Number of caller threads / tasks that hold a &Client.
NumThreads == 2
\* Total number of get invocations in one behaviour.
MaxCalls == 2

\* ------------------------------------------------------- program constants
\* client.rs:260  `res.status() == 429`
TooManyRequests == 429

Threads == 1..NumThreads

\* The API key handed to Client::new (client.rs:66-76).
ApiKey == "abc123"

\* UrlBuilder roots, as segments: the default of Client::v1 (client.rs:74)
\* and a root without a scheme (url_bldr is a pub field, client.rs:15).
DefaultRoot == <<"https:", "//finnhub.io/api/v1">>
NoSchemeRoot == <<"finnhub.io/api/v1">>
Roots == {DefaultRoot, NoSchemeRoot}

\* Endpoint paths passed by the wrappers (client.rs:170).
Endpoints == {"quote"}

\* Parameter lists a caller builds before calling get: the empty list
\* (client.rs:198), and a list with a duplicate key, a value that needs
\* escaping and a key that is already named "token".
ArgLists ==
  { <<>>,
    << <<"symbol", "BRK A">>, <<"token", "old">>, <<"symbol", "AAPL">> >> }

\* Bodies a transport reply may carry.  A body is JSON or not; a JSON object
\* is its set of <<field, value>> members.
QuoteBody == [json |-> TRUE, members |-> {<<"c", 150>>, <<"h", 151>>, <<"t", 7>>}]
MissingFieldBody == [json |-> TRUE, members |-> {<<"c", 150>>}]
HtmlBody == [json |-> FALSE, members |-> {}]
Bodies == {QuoteBody, MissingFieldBody, HtmlBody}
NoBody == [json |-> FALSE, members |-> {}]

\* The fields of the decode target T (a stand-in for CompanyQuote).
RequiredFields == {"c", "h"}

VARIABLES
  build,     \* "live" (cfg(not(test))) or "test" (cfg(test))
  client,    \* the Client: api_key and url_bldr
  fixtures,  \* replay files on disk: file name -> recorded exchange
  calls,     \* number of get invocations so far
  pc,        \* per thread: position inside get
  endpoint,  \* per thread: get's endpoint argument
  params,    \* per thread: the caller's Vec<(&str, String)>
  url_str,   \* per thread: local url_str
  url,       \* per thread: local url (parsed)
  response,  \* per thread: the transport's reply
  outcome,   \* per thread: what get returned
  entry,     \* history: the caller's list when get was entered
  orig,      \* history: the caller's list when it was created
  n,         \* history: get calls made with the caller's current list
  steps      \* history: the steps the current call has taken

vars == <<build, client, fixtures, calls, pc, endpoint, params, url_str, url,
          response, outcome, entry, orig, n, steps>>

\* ----------------------------------------------------------- pure helpers

\* The pair get appends (client.rs:236).
TokenPair == <<"token", client.api_key>>

\* URL-escaping of a parameter value by the builder.
Escape(v) == IF v = "BRK A" THEN "BRK%20A" ELSE v

RECURSIVE QueryString(_)
QueryString(ps) ==
  IF ps = <<>> THEN <<>>
  ELSE IF Len(ps) = 1 THEN <<ps[1][1], "=", Escape(ps[1][2])>>
  ELSE <<ps[1][1], "=", Escape(ps[1][2]), "&">> \o QueryString(Tail(ps))

\* UrlBuilder::url: {root}/{endpoint}?{k1}={v1}&...
UrlBuilderUrl(bldr, ep, ps) == bldr.root \o <<"/", ep, "?">> \o QueryString(ps)

\* UrlBuilder::replay_filename: the fixture is keyed by the rendered URL.
ReplayFilename(bldr, s) == s

\* reqwest::Url::parse: a URL string without a scheme is
\* ParseError::RelativeUrlWithoutBase.
UrlParse(s) ==
  IF s # <<>> /\ s[1] \in {"https:", "http:"}
  THEN [ok |-> TRUE, url |-> s]
  ELSE [ok |-> FALSE, url |-> <<>>]

\* serde_json deserialization into T: every required field present,
\* unknown fields ignored.
Deserialize(body) ==
  IF body.json /\ RequiredFields \subseteq {m[1] : m \in body.members}
  THEN [ok |-> TRUE, value |-> {m \in body.members : m[1] \in RequiredFields}]
  ELSE [ok |-> FALSE, value |-> {}]

\* utils::clean_key_from_file: every occurrence of the key in the file is
\* blanked.
CleanKey(file, key) ==
  [file EXCEPT !.request = [i \in DOMAIN file.request |->
                              IF file.request[i] = key THEN "" ELSE file.request[i]]]

\* A transport reply: a failure, or a status and a body.
Reply(s, b) == [ok |-> TRUE, status |-> s, body |-> b]
Replies ==
  { [ok |-> FALSE, status |-> 0, body |-> NoBody],
    Reply(200, QuoteBody), Reply(200, MissingFieldBody),
    Reply(TooManyRequests, QuoteBody), Reply(TooManyRequests, HtmlBody),
    Reply(500, QuoteBody), Reply(500, HtmlBody) }
NoResponse == [ok |-> FALSE, status |-> 0, body |-> NoBody]

\* get's results: Ok((ApiResponse, Url)), Err(ExitFailure), or a panic.
NoOutcome == [chan |-> "none", kind |-> "none", value |-> {}, url |-> <<>>]
OkResponse(v, u) == [chan |-> "ok", kind |-> "Response", value |-> v, url |-> u]
OkRateLimit(u) == [chan |-> "ok", kind |-> "RateLimitReached", value |-> {}, url |-> u]
Err(k) == [chan |-> "err", kind |-> k, value |-> {}, url |-> <<>>]
Panic(k) == [chan |-> "panic", kind |-> k, value |-> {}, url |-> <<>>]

\* ------------------------------------------------------------------- Init

Init ==
  /\ build \in {"live", "test"}
  /\ client \in {[api_key |-> ApiKey, url_bldr |-> [root |-> r]] : r \in Roots}
  /\ fixtures = [f \in {} |-> NoResponse]
  /\ calls = 0
  /\ pc = [t \in Threads |-> "Idle"]
  /\ endpoint = [t \in Threads |-> "quote"]
  /\ params = [t \in Threads |-> <<>>]
  /\ url_str = [t \in Threads |-> <<>>]
  /\ url = [t \in Threads |-> <<>>]
  /\ response = [t \in Threads |-> NoResponse]
  /\ outcome = [t \in Threads |-> NoOutcome]
  /\ entry = [t \in Threads |-> <<>>]
  /\ orig = [t \in Threads |-> <<>>]
  /\ n = [t \in Threads |-> 0]
  /\ steps = [t \in Threads |-> <<>>]

\* ---------------------------------------------------------------- actions

\* A wrapper (or the caller) invokes get(endpoint, &mut list): with a list it
\* has just built, or with the list it passed to its previous call.
Call(t) ==
  /\ pc[t] \in {"Idle", "Returned"}
  /\ calls < MaxCalls
  /\ \E ep \in Endpoints, reuse \in BOOLEAN, l \in ArgLists :
       LET list == IF reuse THEN params[t] ELSE l IN
       /\ reuse => pc[t] = "Returned"
       /\ endpoint' = [endpoint EXCEPT ![t] = ep]
       /\ params' = [params EXCEPT ![t] = list]
       /\ entry' = [entry EXCEPT ![t] = list]
       /\ orig' = [orig EXCEPT ![t] = IF reuse THEN orig[t] ELSE l]
       /\ n' = [n EXCEPT ![t] = IF reuse THEN n[t] + 1 ELSE 1]
  /\ calls' = calls + 1
  /\ pc' = [pc EXCEPT ![t] = "Start"]
  /\ url_str' = [url_str EXCEPT ![t] = <<>>]
  /\ url' = [url EXCEPT ![t] = <<>>]
  /\ response' = [response EXCEPT ![t] = NoResponse]
  /\ outcome' = [outcome EXCEPT ![t] = NoOutcome]
  /\ steps' = [steps EXCEPT ![t] = <<>>]
  /\ UNCHANGED <<build, client, fixtures>>

\* Mutant of PushedParams: the pair is inserted at the front of the list.
PushedParamsFront(ps, pair) == <<pair>> \o ps

\* client.rs:236  the list after params.push(("token", self.api_key.clone()))
PushedParams(ps, pair) == Append(ps, pair)

\* Mutant of IsRateLimited: every error status is taken for a rate limit.
IsRateLimitedAnyError(status) == status >= 400

\* client.rs:260  res.status() == 429
IsRateLimited(status) == status = TooManyRequests

\* client.rs:236  params.push(("token", self.api_key.clone()));
PushToken(t) ==
  /\ pc[t] = "Start"
  /\ params' = [params EXCEPT ![t] = PushedParams(params[t], TokenPair)]
  /\ pc' = [pc EXCEPT ![t] = "Pushed"]
  /\ steps' = [steps EXCEPT ![t] = Append(steps[t], "push")]
  /\ UNCHANGED <<build, client, fixtures, calls, endpoint, url_str, url,
                 response, outcome, entry, orig, n>>

\* client.rs:237  let url_str = self.url_bldr.url(endpoint, params);
BuildUrl(t) ==
  /\ pc[t] = "Pushed"
  /\ url_str' = [url_str EXCEPT ![t] =
                   UrlBuilderUrl(client.url_bldr, endpoint[t], params[t])]
  /\ pc' = [pc EXCEPT ![t] = "Rendered"]
  /\ steps' = [steps EXCEPT ![t] = Append(steps[t], "build")]
  /\ UNCHANGED <<build, client, fixtures, calls, endpoint, params, url,
                 response, outcome, entry, orig, n>>

\* Mutant of ParseUrl: a parse failure is ignored and the rendered string is
\* used as the URL.
ParseUrlLenient(t) ==
  /\ pc[t] = "Rendered"
  /\ url' = [url EXCEPT ![t] = url_str[t]]
  /\ pc' = [pc EXCEPT ![t] = "URLBuilt"]
  /\ steps' = [steps EXCEPT ![t] = Append(steps[t], "parse")]
  /\ UNCHANGED <<build, client, fixtures, calls, endpoint, params, url_str,
                 response, outcome, entry, orig, n>>

\* Mutant of ParseUrl: the pushed token is popped again before InvalidUrl is
\* returned.
ParseUrlRestoring(t) ==
  /\ pc[t] = "Rendered"
  /\ LET p == UrlParse(url_str[t]) IN
       IF p.ok
       THEN /\ url' = [url EXCEPT ![t] = p.url]
            /\ pc' = [pc EXCEPT ![t] = "URLBuilt"]
            /\ UNCHANGED <<outcome, params>>
       ELSE /\ outcome' = [outcome EXCEPT ![t] = Err("InvalidUrl")]
            /\ pc' = [pc EXCEPT ![t] = "Returned"]
            /\ params' = [params EXCEPT ![t] = SubSeq(@, 1, Len(@) - 1)]
            /\ UNCHANGED url
  /\ steps' = [steps EXCEPT ![t] = Append(steps[t], "parse")]
  /\ UNCHANGED <<build, client, fixtures, calls, endpoint, url_str,
                 response, entry, orig, n>>

\* client.rs:238  let url = Url::parse(&url_str)?;
ParseUrl(t) ==
  /\ pc[t] = "Rendered"
  /\ LET p == UrlParse(url_str[t]) IN
       IF p.ok
       THEN /\ url' = [url EXCEPT ![t] = p.url]
            /\ pc' = [pc EXCEPT ![t] = "URLBuilt"]
            /\ UNCHANGED outcome
       ELSE /\ outcome' = [outcome EXCEPT ![t] = Err("InvalidUrl")]
            /\ pc' = [pc EXCEPT ![t] = "Returned"]
            /\ UNCHANGED url
  /\ steps' = [steps EXCEPT ![t] = Append(steps[t], "parse")]
  /\ UNCHANGED <<build, client, fixtures, calls, endpoint, params, url_str,
                 response, entry, orig, n>>

\* client.rs:259  reqwest::get(url.clone()) : the request goes out and the
\* call suspends on .await.
SendLive(t) ==
  /\ build = "live"
  /\ pc[t] = "URLBuilt"
  /\ pc' = [pc EXCEPT ![t] = "RequestSent"]
  /\ steps' = [steps EXCEPT ![t] = Append(steps[t], "send")]
  /\ UNCHANGED <<build, client, fixtures, calls, endpoint, params, url_str,
                 url, response, outcome, entry, orig, n>>

\* Mutant of ReplyLive: a transport failure is retried once.
ReplyLiveRetry(t) ==
  /\ build = "live"
  /\ pc[t] = "RequestSent"
  /\ \E r \in Replies :
       /\ response' = [response EXCEPT ![t] = r]
       /\ IF r.ok
          THEN /\ pc' = [pc EXCEPT ![t] = "Replied"]
               /\ UNCHANGED outcome
          ELSE IF Len(SelectSeq(steps[t], LAMBDA x : x = "send")) < 2
          THEN /\ pc' = [pc EXCEPT ![t] = "URLBuilt"]
               /\ UNCHANGED outcome
          ELSE /\ outcome' = [outcome EXCEPT ![t] = Err("TransportError")]
               /\ pc' = [pc EXCEPT ![t] = "Returned"]
  /\ steps' = [steps EXCEPT ![t] = Append(steps[t], "reply")]
  /\ UNCHANGED <<build, client, fixtures, calls, endpoint, params, url_str,
                 url, entry, orig, n>>

\* Mutant of ReplyLive: replies are cached by URL and a cached reply is served
\* to later calls.
ReplyLiveCached(t) ==
  /\ build = "live"
  /\ pc[t] = "RequestSent"
  /\ IF url[t] \in DOMAIN fixtures
     THEN /\ response' = [response EXCEPT ![t] =
                            [ok |-> TRUE, status |-> fixtures[url[t]].status,
                             body |-> fixtures[url[t]].body]]
          /\ pc' = [pc EXCEPT ![t] = "Replied"]
          /\ UNCHANGED <<outcome, fixtures>>
     ELSE \E r \in Replies :
          /\ response' = [response EXCEPT ![t] = r]
          /\ IF r.ok
             THEN /\ fixtures' = (url[t] :> [request |-> url[t], status |-> r.status,
                                             body |-> r.body]) @@ fixtures
                  /\ pc' = [pc EXCEPT ![t] = "Replied"]
                  /\ UNCHANGED outcome
             ELSE /\ outcome' = [outcome EXCEPT ![t] = Err("TransportError")]
                  /\ pc' = [pc EXCEPT ![t] = "Returned"]
                  /\ UNCHANGED fixtures
  /\ steps' = [steps EXCEPT ![t] = Append(steps[t], "reply")]
  /\ UNCHANGED <<build, client, calls, endpoint, params, url_str,
                 url, entry, orig, n>>

\* client.rs:259  let res = reqwest::get(..).await?; : the transport replies
\* or fails, and `?` returns the failure.
ReplyLive(t) ==
  /\ build = "live"
  /\ pc[t] = "RequestSent"
  /\ \E r \in Replies :
       /\ response' = [response EXCEPT ![t] = r]
       /\ IF r.ok
          THEN /\ pc' = [pc EXCEPT ![t] = "Replied"]
               /\ UNCHANGED outcome
          ELSE /\ outcome' = [outcome EXCEPT ![t] = Err("TransportError")]
               /\ pc' = [pc EXCEPT ![t] = "Returned"]
  /\ steps' = [steps EXCEPT ![t] = Append(steps[t], "reply")]
  /\ UNCHANGED <<build, client, fixtures, calls, endpoint, params, url_str,
                 url, entry, orig, n>>

\* client.rs:260-262  if res.status() == 429 { return Ok((RateLimitReached, url)) }
CheckStatus(t) ==
  /\ build = "live"
  /\ pc[t] = "Replied"
  /\ IF IsRateLimited(response[t].status)
     THEN /\ outcome' = [outcome EXCEPT ![t] = OkRateLimit(url[t])]
          /\ pc' = [pc EXCEPT ![t] = "Returned"]
     ELSE /\ pc' = [pc EXCEPT ![t] = "Decoding"]
          /\ UNCHANGED outcome
  /\ steps' = [steps EXCEPT ![t] = Append(steps[t], "status")]
  /\ UNCHANGED <<build, client, fixtures, calls, endpoint, params, url_str,
                 url, response, entry, orig, n>>

\* client.rs:263-264  let res = res.json::<T>().await?; Ok((Response(res), url))
DecodeLive(t) ==
  /\ build = "live"
  /\ pc[t] = "Decoding"
  /\ LET d == Deserialize(response[t].body) IN
       outcome' = [outcome EXCEPT ![t] =
                     IF d.ok THEN OkResponse(d.value, url[t]) ELSE Err("DecodeError")]
  /\ pc' = [pc EXCEPT ![t] = "Returned"]
  /\ steps' = [steps EXCEPT ![t] = Append(steps[t], "decode")]
  /\ UNCHANGED <<build, client, fixtures, calls, endpoint, params, url_str,
                 url, response, entry, orig, n>>

\* client.rs:245-250  replay_filename, ReplayClient::new, rc.get(url).send():
\* the replay client looks up the fixture file, which is keyed by the
\* resolved URL; a fixture that exists is replayed, without a network call.
ReplayLookup(t) ==
  /\ build = "test"
  /\ pc[t] = "URLBuilt"
  /\ LET file == ReplayFilename(client.url_bldr, url_str[t]) IN
       IF file \in DOMAIN fixtures
       THEN /\ response' = [response EXCEPT ![t] =
                              [ok |-> TRUE, status |-> fixtures[file].status,
                               body |-> fixtures[file].body]]
            /\ pc' = [pc EXCEPT ![t] = "Replied"]
       ELSE /\ pc' = [pc EXCEPT ![t] = "RequestSent"]
            /\ UNCHANGED response
  /\ steps' = [steps EXCEPT ![t] = Append(steps[t], "send")]
  /\ UNCHANGED <<build, client, fixtures, calls, endpoint, params, url_str,
                 url, outcome, entry, orig, n>>

\* client.rs:250  rc.get(url.clone()).send().unwrap(): with no fixture the
\* replay client performs the request, records request and response in the
\* fixture file, and returns the response; a failure panics in unwrap().
ReplayRecord(t) ==
  /\ build = "test"
  /\ pc[t] = "RequestSent"
  /\ \E r \in Replies :
       /\ response' = [response EXCEPT ![t] = r]
       /\ IF r.ok
          THEN /\ fixtures' =
                    (ReplayFilename(client.url_bldr, url_str[t]) :>
                       [request |-> url[t], status |-> r.status,
                        body |-> r.body]) @@ fixtures
               /\ pc' = [pc EXCEPT ![t] = "Replied"]
               /\ UNCHANGED outcome
          ELSE /\ outcome' = [outcome EXCEPT ![t] = Panic("TransportError")]
               /\ pc' = [pc EXCEPT ![t] = "Panicked"]
               /\ UNCHANGED fixtures
  /\ steps' = [steps EXCEPT ![t] = Append(steps[t], "reply")]
  /\ UNCHANGED <<build, client, calls, endpoint, params, url_str, url,
                 entry, orig, n>>

\* client.rs:251  serde_json::from_slice::<T>(response.body.as_slice()).unwrap()
DecodeTest(t) ==
  /\ build = "test"
  /\ pc[t] = "Replied"
  /\ IF Deserialize(response[t].body).ok
     THEN /\ pc' = [pc EXCEPT ![t] = "Deserialized"]
          /\ UNCHANGED outcome
     ELSE /\ outcome' = [outcome EXCEPT ![t] = Panic("DecodeError")]
          /\ pc' = [pc EXCEPT ![t] = "Panicked"]
  /\ steps' = [steps EXCEPT ![t] = Append(steps[t], "decode")]
  /\ UNCHANGED <<build, client, fixtures, calls, endpoint, params, url_str,
                 url, response, entry, orig, n>>

\* client.rs:253-255  clean_key_from_file(replay_file, self.api_key.clone());
\*                    Ok((ApiResponse::Response(deserialized), url))
CleanAndReturn(t) ==
  /\ build = "test"
  /\ pc[t] = "Deserialized"
  /\ LET file == ReplayFilename(client.url_bldr, url_str[t]) IN
       fixtures' = [fixtures EXCEPT ![file] = CleanKey(@, client.api_key)]
  /\ outcome' = [outcome EXCEPT ![t] =
                   OkResponse(Deserialize(response[t].body).value, url[t])]
  /\ pc' = [pc EXCEPT ![t] = "Returned"]
  /\ steps' = [steps EXCEPT ![t] = Append(steps[t], "clean")]
  /\ UNCHANGED <<build, client, calls, endpoint, params, url_str, url,
                 response, entry, orig, n>>

Next ==
  \E t \in Threads :
    \/ Call(t)
    \/ PushToken(t)
    \/ BuildUrl(t)
    \/ ParseUrl(t)
    \/ SendLive(t)
    \/ ReplyLive(t)
    \/ CheckStatus(t)
    \/ DecodeLive(t)
    \/ ReplayLookup(t)
    \/ ReplayRecord(t)
    \/ DecodeTest(t)
    \/ CleanAndReturn(t)

Spec == Init /\ [][Next]_vars
\* ------------------------------------------------------------- properties

Terminal(t) == pc[t] \in {"Returned", "Panicked"}
Has(s, x) == \E i \in DOMAIN s : s[i] = x
Count(s, x) == Cardinality({i \in DOMAIN s : s[i] = x})
\* The call was served a response that it did not receive from the network
\* itself: one that another call had stored.
Replayed(t) == response[t].ok /\ ~Has(steps[t], "reply")
Precedes(s, a, b) ==
  \A j \in DOMAIN s : s[j] = b => \E i \in 1..(j - 1) : s[i] = a

\* Number of `token=<api key>` parameters in a rendered URL.
CredentialParams(s) ==
  Cardinality({i \in DOMAIN s :
                 /\ i + 2 \in DOMAIN s
                 /\ s[i] = "token" /\ s[i + 1] = "=" /\ s[i + 2] = client.api_key})

RECURSIVE Tokens(_)
Tokens(k) == IF k = 0 THEN <<>> ELSE Append(Tokens(k - 1), TokenPair)

\* C1: in every call, the list handed to the URL builder is the caller's
\* list as it was on entry, in its original order, followed by exactly one
\* ("token", api_key) pair, which is its last element.
C1_TokenAppendedLast ==
  \A t \in Threads :
    Has(steps[t], "build") =>
      /\ Len(params[t]) = Len(entry[t]) + 1
      /\ params[t][Len(params[t])] = <<"token", client.api_key>>
      /\ SubSeq(params[t], 1, Len(entry[t])) = entry[t]
      /\ url_str[t] = UrlBuilderUrl(client.url_bldr, endpoint[t], params[t])

\* C1 witness: the URL was built for a caller list that already held a
\* "token" key.
C1_Witness ==
  \E t \in Threads :
    /\ Has(steps[t], "build")
    /\ \E i \in DOMAIN entry[t] : entry[t][i][1] = "token"

\* C2 (as claimed): a reply with status 429 is never decoded, and the call
\* ends with Ok((RateLimitReached, url)).
C2_RateLimitedNeverDecoded ==
  \A t \in Threads :
    (response[t].ok /\ response[t].status = TooManyRequests) =>
      /\ ~Has(steps[t], "decode")
      /\ Terminal(t) => outcome[t] = OkRateLimit(url[t])

\* C3: no transport request is started before the rendered URL has parsed;
\* when it does not parse the call ends with InvalidUrl and no request.
C3_NoRequestWithoutParsedUrl ==
  \A t \in Threads :
    /\ Has(steps[t], "send") =>
         Precedes(steps[t], "parse", "send") /\ UrlParse(url_str[t]).ok
    /\ (Has(steps[t], "parse") /\ ~UrlParse(url_str[t]).ok) =>
         /\ pc[t] = "Returned"
         /\ outcome[t] = Err("InvalidUrl")
         /\ ~Has(steps[t], "send") /\ ~Has(steps[t], "reply")

\* C3 witness: a call returned InvalidUrl.
C3_Witness ==
  \E t \in Threads : pc[t] = "Returned" /\ outcome[t] = Err("InvalidUrl")

\* C4 (as claimed): every finished call has issued exactly one transport
\* request, whatever its outcome.
C4_ExactlyOneRequest ==
  \A t \in Threads : Terminal(t) => Count(steps[t], "send") = 1

\* C4 (amended): a call issues at most one transport request and makes at
\* most one network round trip; a finished call has issued no request when
\* it ended with InvalidUrl and exactly one otherwise, and has made one
\* network round trip unless it ended with InvalidUrl or was served from a
\* fixture.
C4_AtMostOneRequest ==
  \A t \in Threads :
    /\ Count(steps[t], "send") <= 1
    /\ Count(steps[t], "reply") <= 1
    /\ Terminal(t) =>
         /\ Count(steps[t], "send") =
              IF outcome[t].kind = "InvalidUrl" THEN 0 ELSE 1
         /\ Count(steps[t], "reply") =
              IF outcome[t].kind = "InvalidUrl" \/ Replayed(t) THEN 0 ELSE 1

\* C4 witness: a call ended with a transport failure after one request.
C4_Witness ==
  \E t \in Threads :
    /\ pc[t] = "Returned"
    /\ outcome[t] = Err("TransportError")
    /\ Count(steps[t], "send") = 1

\* C5: a finished call whose reply had a status other than 429 attempted to
\* decode the body and, when the body decodes, returned Response with the
\* decoding of that body and the resolved URL; RateLimitReached is returned
\* for status 429 only.
C5_OtherStatusDecoded ==
  \A t \in Threads :
    (Terminal(t) /\ response[t].ok) =>
      /\ outcome[t].kind = "RateLimitReached" => response[t].status = TooManyRequests
      /\ response[t].status # TooManyRequests =>
           /\ Has(steps[t], "decode")
           /\ Deserialize(response[t].body).ok =>
                outcome[t] = OkResponse(Deserialize(response[t].body).value, url[t])
           /\ response[t].body = QuoteBody =>
                outcome[t].value = {<<"c", 150>>, <<"h", 151>>}

\* C5 witness: a reply with status 500 and a well-formed body was returned
\* as Response.
C5_Witness ==
  \E t \in Threads :
    /\ pc[t] = "Returned"
    /\ response[t].ok /\ response[t].status = 500
    /\ outcome[t].kind = "Response"

\* C6 (as claimed): a body of the wrong shape under a non-429 status ends
\* the call with DecodeError on the error channel.
C6_DecodeFailureReturned ==
  \A t \in Threads :
    ( /\ Terminal(t)
      /\ response[t].ok
      /\ response[t].status # TooManyRequests
      /\ ~Deserialize(response[t].body).ok ) =>
      outcome[t] = Err("DecodeError")

\* C7 (as claimed): no fixture file on disk ever contains the api key.
C7_NoKeyInFixture ==
  \A f \in DOMAIN fixtures :
    \A i \in DOMAIN fixtures[f].request : fixtures[f].request[i] # client.api_key

\* C8 (as claimed): a finished call is in one of the five terminal states
\* (Decoded, RateLimited, InvalidUrl, TransportFailed, DecodeError), and
\* decoding is always preceded by the status check.
C8_StateMachine ==
  \A t \in Threads :
    /\ Terminal(t) =>
         \/ outcome[t].chan = "ok" /\ outcome[t].kind \in {"Response", "RateLimitReached"}
         \/ outcome[t].chan = "err"
              /\ outcome[t].kind \in {"InvalidUrl", "TransportError", "DecodeError"}
    /\ Precedes(steps[t], "status", "decode")

\* What a call of the live build returns when it runs alone: a function of
\* its own arguments and of the reply to its own request.
AloneLive(t) ==
  LET p == UrlParse(UrlBuilderUrl(client.url_bldr, endpoint[t],
                                  Append(entry[t], <<"token", client.api_key>>)))
      d == Deserialize(response[t].body)
  IN  IF ~p.ok THEN Err("InvalidUrl")
      ELSE IF ~response[t].ok THEN Err("TransportError")
      ELSE IF response[t].status = TooManyRequests THEN OkRateLimit(p.url)
      ELSE IF d.ok THEN OkResponse(d.value, p.url)
      ELSE Err("DecodeError")

\* C9 (as claimed): no call reads state written by another call: every
\* response a call works on is the reply to its own request.
C9_NoSharedState ==
  \A t \in Threads : ~Replayed(t)

LiveIndependent ==
  /\ DOMAIN fixtures = {}
  /\ \A t \in Threads :
       /\ ~Replayed(t)
       /\ Terminal(t) => outcome[t] = AloneLive(t)

\* C9 (amended): no step of any call changes the Client (api_key, url_bldr),
\* under either transport; under the live transport no fixture is read or
\* written and every finished call's outcome and resolved URL are what the
\* call produces alone from its own arguments and the reply to its own
\* request.  Under the replay transport the calls share the fixture file
\* keyed by the resolved URL.
C9_LiveCallsIndependent ==
  /\ [][client' = client]_vars
  /\ [](build = "live" => LiveIndependent)

\* C9 witness: two calls of the live build with the same resolved URL
\* finished with different outcomes.
C9_Witness ==
  /\ build = "live"
  /\ \E t, u \in Threads :
       /\ t # u
       /\ pc[t] = "Returned" /\ pc[u] = "Returned"
       /\ url[t] = url[u] /\ url[t] # <<>>
       /\ outcome[t].kind = "Response"
       /\ outcome[u].kind = "RateLimitReached"

\* C10: from the push on, and after the call has ended with any outcome, the
\* caller's list is its value on entry followed by one ("token", api_key)
\* pair; after n calls with the same list it is the original list followed
\* by n such pairs, and the n-th rendered URL carries n credential
\* parameters.
C10_ListMutatedInPlace ==
  \A t \in Threads :
    /\ Has(steps[t], "push") =>
         /\ params[t] = Append(entry[t], <<"token", client.api_key>>)
         /\ params[t] = orig[t] \o Tokens(n[t])
    /\ Has(steps[t], "build") => CredentialParams(url_str[t]) = n[t]

\* C10 witness: the second call with the same list ended with an error.
C10_Witness ==
  \E t \in Threads :
    /\ pc[t] = "Returned"
    /\ n[t] = 2
    /\ outcome[t].chan = "err"

====
